---- MODULE Spec2Model ----
(***************************************************************************)
(* Model of the Valen reminder bot: ValenBot (src/valen_bot/bot.py) on top *)
(* of the Database user store (src/db.py).                                 *)
(*                                                                         *)
(* The bot is one asyncio event loop.  A coroutine runs without            *)
(* interruption until it awaits the network: bot.send_message and          *)
(* message.reply_text are the only suspension points (cancel_user_jobs and *)
(* schedule_user_reminders are awaited but contain no await themselves).   *)
(* One action below is one such uninterrupted stretch of a handler or job. *)
(***************************************************************************)
EXTENDS Integers, Sequences, FiniteSets, TLC

(* ---- bounds of the model ---------------------------------------------- *)
NumUsers == 2
MaxInFlight == 1
MaxDay == 4

(* ---- program constants ------------------------------------------------ *)
DefaultHour1 == 10
DefaultHour2 == 22
InactiveDays == 3
AbsentDays == 4

StartDay == MaxDay - 1
Users == 1..NumUsers
NULL == <<>>
None == 0
Garbage == <<"garbage">>

VARIABLES last, db, user_jobs, job_queue, started, handler, running, sweep, today,
          admin_id, user_times, sent, stale

vars == <<last, db, user_jobs, job_queue, started, handler, running, sweep, today,
          admin_id, user_times, sent, stale>>

(* ---- dates stored as TEXT --------------------------------------------- *)
(* date.isoformat(): the text of calendar day d.                           *)
isoformat(d) == <<"iso", d>>

(* date.fromisoformat(): the day of a well-formed text, ValueError else.   *)
fromisoformat(s) ==
    IF Len(s) = 2 /\ s[1] = "iso"
    THEN [ok |-> TRUE, value |-> s[2]]
    ELSE [ok |-> FALSE, value |-> 0]

(* ---- Database (src/db.py) --------------------------------------------- *)
(* The users table: a function from the user_ids that have a row.         *)
HasRow(dbv, user_id) == user_id \in DOMAIN dbv

(* add_user as INSERT OR REPLACE: the old row, its date included, is lost.  *)
add_user_replaces(dbv, user_id, hour1, hour2) ==
    [x \in (DOMAIN dbv) \cup {user_id} |->
        IF x = user_id
        THEN [reminder_hour_1 |-> hour1, reminder_hour_2 |-> hour2,
              last_interaction_date |-> NULL, subscribed |-> 1]
        ELSE dbv[x]]

add_user(dbv, user_id, hour1, hour2) ==
    IF ~HasRow(dbv, user_id)
    THEN [x \in (DOMAIN dbv) \cup {user_id} |->
             IF x = user_id
             THEN [reminder_hour_1 |-> hour1, reminder_hour_2 |-> hour2,
                   last_interaction_date |-> NULL, subscribed |-> 1]
             ELSE dbv[x]]
    ELSE [dbv EXCEPT ![user_id].reminder_hour_1 = hour1,
                     ![user_id].reminder_hour_2 = hour2,
                     ![user_id].subscribed = 1]

(* remove_user with the UPDATE left out.                                   *)
remove_user_keeps_flag(dbv, user_id) == dbv

remove_user(dbv, user_id) ==
    IF ~HasRow(dbv, user_id)
    THEN dbv
    ELSE [dbv EXCEPT ![user_id].subscribed = 0]

update_interaction(dbv, user_id, interaction_date) ==
    IF ~HasRow(dbv, user_id)
    THEN dbv
    ELSE [dbv EXCEPT ![user_id].last_interaction_date =
                         isoformat(interaction_date)]

get_user(dbv, user_id) == dbv[user_id]

ActiveRow(dbv, u) ==
    [user_id |-> u, reminder_hour_1 |-> dbv[u].reminder_hour_1,
     reminder_hour_2 |-> dbv[u].reminder_hour_2,
     last_interaction_date |-> dbv[u].last_interaction_date]

RECURSIVE ActiveFrom(_, _)
ActiveFrom(dbv, u) ==
    IF u > NumUsers THEN <<>>
    ELSE IF HasRow(dbv, u) /\ dbv[u].subscribed = 1
         THEN <<ActiveRow(dbv, u)>> \o ActiveFrom(dbv, u + 1)
         ELSE ActiveFrom(dbv, u + 1)

(* SELECT ... WHERE subscribed=1: a list, in rowid (= user_id) order.      *)
get_active_users(dbv) == ActiveFrom(dbv, 1)

(* ---- the module-level store (src/valen_bot/db.py) --------------------- *)
(* A second users table, in its own database file, with the reminder times *)
(* as 'HH:MM' text: <<HH, MM>> here.                                       *)
DefaultMorning == <<10, 0>>
DefaultEvening == <<22, 0>>

(* The values passed as time_type and time_str.                            *)
TimeTypes == {"morning", "evening"}
TimeStrs == {<<7, 15>>, DefaultMorning}

(* INSERT OR IGNORE: an existing row is left as it is.                     *)
valen_add_user(tv, user_id, now) ==
    IF user_id \in DOMAIN tv
    THEN tv
    ELSE [x \in (DOMAIN tv) \cup {user_id} |->
             IF x = user_id
             THEN [last_interaction |-> isoformat(now),
                   morning_time |-> DefaultMorning,
                   evening_time |-> DefaultEvening]
             ELSE tv[x]]

(* UPDATE users SET {time_type}_time = ? WHERE user_id = ?                 *)
set_user_time(tv, user_id, time_type, time_str) ==
    IF user_id \notin DOMAIN tv
    THEN tv
    ELSE IF time_type = "morning"
         THEN [tv EXCEPT ![user_id].morning_time = time_str]
         ELSE [tv EXCEPT ![user_id].evening_time = time_str]

get_user_times(tv, user_id) ==
    IF user_id \in DOMAIN tv
    THEN <<tv[user_id].morning_time, tv[user_id].evening_time>>
    ELSE <<DefaultMorning, DefaultEvening>>

(* ---- job queue and job table (src/valen_bot/bot.py) ------------------- *)
(* A Job object: gen tells apart the Job objects created for the same user *)
(* and name by different run_daily calls.                                  *)
NewJob(user_id, name, hour, gen) ==
    [user_id |-> user_id, name |-> name, hour |-> hour, gen |-> gen]

JobsOf(jobs, u) == {j \in jobs : j.user_id = u}

Range(s) == {s[k] : k \in 1..Len(s)}

(* Job objects of the user that are still referenced somewhere.            *)
Referenced(st, busy, u) ==
    JobsOf(st.job_queue, u) \cup JobsOf(busy, u)
      \cup (IF u \in DOMAIN st.user_jobs THEN Range(st.user_jobs[u]) ELSE {})

FreshGen(st, busy, u) ==
    CHOOSE g \in 0..(2 * (MaxInFlight + 2)) :
        /\ \A j \in Referenced(st, busy, u) : j.gen # g
        /\ \A h \in 0..(g - 1) : \E j \in Referenced(st, busy, u) : j.gen = h

(* Job.schedule_removal(): removes the trigger; raises when it is gone.    *)
schedule_removal(queue, job) ==
    IF job \in queue
    THEN [job_queue |-> queue \ {job}, raised |-> FALSE]
    ELSE [job_queue |-> queue, raised |-> TRUE]

RECURSIVE RemoveAll(_, _, _)
RemoveAll(queue, jobs, k) ==
    IF k > Len(jobs) THEN queue
    ELSE RemoveAll(schedule_removal(queue, jobs[k]).job_queue, jobs, k + 1)

DropKey(f, u) == [x \in (DOMAIN f) \ {u} |-> f[x]]

PutKey(f, u, v) == [x \in (DOMAIN f) \cup {u} |-> IF x = u THEN v ELSE f[x]]

(* The loop of cancel_user_jobs: does some schedule_removal in it raise    *)
(* (an exception the loop swallows), i.e. is a handle cancelled that has   *)
(* been cancelled before?                                                  *)
RECURSIVE AnyRaised(_, _, _)
AnyRaised(queue, jobs, k) ==
    IF k > Len(jobs) THEN FALSE
    ELSE \/ schedule_removal(queue, jobs[k]).raised
         \/ AnyRaised(schedule_removal(queue, jobs[k]).job_queue, jobs, k + 1)

(* cancel_user_jobs reading the entry with get: the entry stays.           *)
cancel_user_jobs_keeps_entry(st, user_id) ==
    LET jobs == IF user_id \in DOMAIN st.user_jobs
                THEN st.user_jobs[user_id] ELSE <<>>
    IN  [user_jobs |-> st.user_jobs,
         job_queue |-> RemoveAll(st.job_queue, jobs, 1),
         raised |-> FALSE]

(* cancel_user_jobs that pops the entry and removes no trigger.            *)
cancel_user_jobs_leaks(st, user_id) ==
    [user_jobs |-> DropKey(st.user_jobs, user_id),
     job_queue |-> st.job_queue,
     raised |-> FALSE]

(* cancel_user_jobs with user_jobs.pop(user_id): KeyError on no entry.     *)
cancel_user_jobs_keyerror(st, user_id) ==
    IF user_id \in DOMAIN st.user_jobs
    THEN [user_jobs |-> DropKey(st.user_jobs, user_id),
          job_queue |-> RemoveAll(st.job_queue, st.user_jobs[user_id], 1),
          raised |-> FALSE]
    ELSE [user_jobs |-> st.user_jobs, job_queue |-> st.job_queue,
          raised |-> TRUE]

cancel_user_jobs(st, user_id) ==
    LET jobs == IF user_id \in DOMAIN st.user_jobs
                THEN st.user_jobs[user_id] ELSE <<>>
    IN  [user_jobs |-> DropKey(st.user_jobs, user_id),
         job_queue |-> RemoveAll(st.job_queue, jobs, 1),
         raised |-> FALSE]

(* run_daily called once when the two hours are the same.                 *)
install_dedups(c, busy, record, user_id) ==
    LET g == FreshGen(c, busy, user_id)
        job1 == NewJob(user_id, "reminder1", record.reminder_hour_1, g)
        job2 == NewJob(user_id, "reminder2", record.reminder_hour_2, g)
    IN  IF record.reminder_hour_1 = record.reminder_hour_2
        THEN [user_jobs |-> PutKey(c.user_jobs, user_id, <<job1>>),
              job_queue |-> c.job_queue \cup {job1}]
        ELSE [user_jobs |-> PutKey(c.user_jobs, user_id, <<job1, job2>>),
              job_queue |-> c.job_queue \cup {job1, job2}]

(* The two run_daily calls and the table entry for a stored record.        *)
install(c, busy, record, user_id) ==
    LET g == FreshGen(c, busy, user_id)
        job1 == NewJob(user_id, "reminder1", record.reminder_hour_1, g)
        job2 == NewJob(user_id, "reminder2", record.reminder_hour_2, g)
    IN  [user_jobs |-> PutKey(c.user_jobs, user_id, <<job1, job2>>),
         job_queue |-> c.job_queue \cup {job1, job2}]

(* schedule_user_reminders without its leading cancel_user_jobs.           *)
schedule_user_reminders_nocancel(st, busy, dbv, user_id) ==
    LET c == [user_jobs |-> st.user_jobs, job_queue |-> st.job_queue]
    IN  IF ~HasRow(dbv, user_id) THEN c
        ELSE IF get_user(dbv, user_id).subscribed = 0 THEN c
        ELSE install(c, busy, get_user(dbv, user_id), user_id)

(* schedule_user_reminders without its test of the subscribed flag.        *)
schedule_user_reminders_ignores_flag(st, busy, dbv, user_id) ==
    LET c == cancel_user_jobs(st, user_id)
    IN  IF ~HasRow(dbv, user_id)
        THEN [user_jobs |-> c.user_jobs, job_queue |-> c.job_queue]
        ELSE install(c, busy, get_user(dbv, user_id), user_id)

schedule_user_reminders(st, busy, dbv, user_id) ==
    LET c == cancel_user_jobs(st, user_id)
        record == get_user(dbv, user_id)
    IN  IF ~HasRow(dbv, user_id)
        THEN [user_jobs |-> c.user_jobs, job_queue |-> c.job_queue]
        ELSE IF record.subscribed = 0
        THEN [user_jobs |-> c.user_jobs, job_queue |-> c.job_queue]
        ELSE install(c, busy, record, user_id)

Table == [user_jobs |-> user_jobs, job_queue |-> job_queue]

(* The step just taken and the user it was for (0: none): an observation   *)
(* of the run, read by no action.                                          *)
Step(op, user) == [op |-> op, user |-> user]

(* ---- initial state ---------------------------------------------------- *)
InitDates == {NULL, Garbage, isoformat(StartDay - 2)}

InitRows ==
    [reminder_hour_1 : {DefaultHour1}, reminder_hour_2 : {DefaultHour2},
     last_interaction_date : InitDates, subscribed : {0, 1}]

IdleSweep ==
    [pc |-> "idle", rows |-> <<>>, i |-> 0, today |-> 0, days |-> 0,
     log |-> <<>>, ok |-> TRUE]

Init ==
    /\ last = Step("Init", 0)
    /\ db \in UNION {[S -> InitRows] : S \in SUBSET Users}
    /\ user_jobs = <<>>
    /\ job_queue = {}
    /\ started = FALSE
    /\ handler = "idle"
    /\ running = {}
    /\ sweep = IdleSweep
    /\ today = StartDay
    /\ admin_id \in {None, NumUsers + 1}
    /\ user_times = <<>>
    /\ sent = {}
    /\ stale = {}

(* ---- ValenBot.run: the startup rebuild -------------------------------- *)
RECURSIVE ScheduleAll(_, _, _, _)
ScheduleAll(st, dbv, rows, k) ==
    IF k > Len(rows) THEN st
    ELSE ScheduleAll(schedule_user_reminders(st, {}, dbv, rows[k].user_id),
                     dbv, rows, k + 1)

(* run that starts polling without the rebuild loop.                      *)
Run_skips_rebuild ==
    /\ ~started
    /\ started' = TRUE
    /\ UNCHANGED <<db, user_jobs, job_queue, handler, running, sweep, today,
                   admin_id>>

Run ==
    /\ ~started
    /\ LET st == ScheduleAll(Table, db, get_active_users(db), 1)
       IN  /\ user_jobs' = st.user_jobs
           /\ job_queue' = st.job_queue
    /\ started' = TRUE
    /\ UNCHANGED <<db, handler, running, sweep, today, admin_id>>

(* ---- command and message handlers ------------------------------------- *)
Start(u) ==
    /\ started /\ handler = "idle"
    /\ LET db1 == add_user(db, u, DefaultHour1, DefaultHour2)
           c == cancel_user_jobs(Table, u)
           st == schedule_user_reminders(c, running, db1, u)
       IN  /\ db' = db1
           /\ user_jobs' = st.user_jobs
           /\ job_queue' = st.job_queue
    /\ handler' = "replying"
    /\ UNCHANGED <<started, running, sweep, today, admin_id>>

Stop(u) ==
    /\ started /\ handler = "idle"
    /\ LET c == cancel_user_jobs(Table, u)
       IN  /\ db' = remove_user(db, u)
           /\ user_jobs' = c.user_jobs
           /\ job_queue' = c.job_queue
    /\ handler' = "replying"
    /\ UNCHANGED <<started, running, sweep, today, admin_id>>

(* reply_text returns or raises: either way the handler is over.           *)
ReplyDone ==
    /\ handler = "replying"
    /\ handler' = "idle"
    /\ UNCHANGED <<db, user_jobs, job_queue, started, running, sweep, today,
                   admin_id>>

(* handle_message without its test of the subscribed flag.                 *)
HandleMessage_ignores_flag(u) ==
    /\ started /\ handler = "idle"
    /\ IF ~HasRow(db, u)
       THEN db' = db
       ELSE db' = update_interaction(db, u, today)
    /\ UNCHANGED <<user_jobs, job_queue, started, handler, running, sweep,
                   today, admin_id>>

HandleMessage(u) ==
    /\ started /\ handler = "idle"
    /\ LET user_record == get_user(db, u)
       IN  IF ~HasRow(db, u) \/ user_record.subscribed = 0
           THEN db' = db
           ELSE db' = update_interaction(db, u, today)
    /\ UNCHANGED <<user_jobs, job_queue, started, handler, running, sweep,
                   today, admin_id>>

ScheduleUserReminders(u) ==
    /\ started /\ handler = "idle"
    /\ LET st == schedule_user_reminders(Table, running, db, u)
       IN  /\ user_jobs' = st.user_jobs
           /\ job_queue' = st.job_queue
    /\ UNCHANGED <<db, started, handler, running, sweep, today, admin_id>>

(* cancel_user_jobs called on its own.                                     *)
CancelUserJobs(u) ==
    /\ started /\ handler = "idle"
    /\ LET c == cancel_user_jobs(Table, u)
       IN  /\ user_jobs' = c.user_jobs
           /\ job_queue' = c.job_queue
    /\ UNCHANGED <<db, started, handler, running, sweep, today, admin_id>>

(* ---- the operations of src/valen_bot/db.py ---------------------------- *)
AddUser(u) ==
    /\ user_times' = valen_add_user(user_times, u, today)
    /\ UNCHANGED <<db, user_jobs, job_queue, started, handler, running, sweep,
                   today, admin_id>>

SetUserTime(u, time_type, time_str) ==
    /\ user_times' = set_user_time(user_times, u, time_type, time_str)
    /\ UNCHANGED <<db, user_jobs, job_queue, started, handler, running, sweep,
                   today, admin_id>>

(* ---- send_reminder ---------------------------------------------------- *)
FireReminder(job) ==
    /\ started
    /\ job \in job_queue /\ job \notin running
    /\ Cardinality(running) < MaxInFlight
    /\ running' = running \cup {job}
    /\ UNCHANGED <<db, user_jobs, job_queue, started, handler, sweep, today,
                   admin_id>>

ReminderSent(job) ==
    /\ job \in running
    /\ running' = running \ {job}
    /\ UNCHANGED <<db, user_jobs, job_queue, started, handler, sweep, today,
                   admin_id>>

(* The except branch of send_reminder without its cancel_user_jobs.        *)
ReminderFailed_keeps_jobs(job) ==
    /\ job \in running
    /\ db' = remove_user(db, job.user_id)
    /\ running' = running \ {job}
    /\ UNCHANGED <<user_jobs, job_queue, started, handler, sweep, today,
                   admin_id>>

(* The except branch cleaning up only when the handle that fired is still  *)
(* a live trigger.                                                         *)
ReminderFailed_only_if_live(job) ==
    /\ job \in running
    /\ LET c == IF job \in job_queue
                THEN cancel_user_jobs(Table, job.user_id)
                ELSE [user_jobs |-> user_jobs, job_queue |-> job_queue]
       IN  /\ user_jobs' = c.user_jobs
           /\ job_queue' = c.job_queue
    /\ db' = IF job \in job_queue THEN remove_user(db, job.user_id) ELSE db
    /\ running' = running \ {job}
    /\ UNCHANGED <<started, handler, sweep, today, admin_id>>

ReminderFailed(job) ==
    /\ job \in running
    /\ LET c == cancel_user_jobs(Table, job.user_id)
       IN  /\ user_jobs' = c.user_jobs
           /\ job_queue' = c.job_queue
    /\ db' = remove_user(db, job.user_id)
    /\ running' = running \ {job}
    /\ UNCHANGED <<started, handler, sweep, today, admin_id>>

(* ---- check_inactivity: the daily sweep -------------------------------- *)
(* days_inactive with an absent date read as today.                       *)
days_inactive_absent_today(last_date_str, tdy) ==
    IF last_date_str # NULL
    THEN tdy - fromisoformat(last_date_str).value
    ELSE tdy - tdy

(* Days since the last interaction, None read as AbsentDays days ago.      *)
days_inactive(last_date_str, tdy) ==
    IF last_date_str # NULL
    THEN tdy - fromisoformat(last_date_str).value
    ELSE tdy - (tdy - AbsentDays)

(* The test with > for >=.                                                 *)
is_inactive_strict(days) == days > InactiveDays

is_inactive(days) == days >= InactiveDays

(* The stored text is there and does not parse.                            *)
is_corrupt(last_date_str) ==
    last_date_str # NULL /\ ~fromisoformat(last_date_str).ok

(* The loop with a bare continue in the except branch: nothing is reset.   *)
RECURSIVE scan_skips_repair(_, _, _, _)
scan_skips_repair(rows, i, dbv, tdy) ==
    IF i > Len(rows) THEN [i |-> i, db |-> dbv, days |-> 0]
    ELSE LET last_date_str == rows[i].last_interaction_date
         IN  IF is_corrupt(last_date_str)
             THEN scan_skips_repair(rows, i + 1, dbv, tdy)
             ELSE IF is_inactive(days_inactive(last_date_str, tdy))
                  THEN [i |-> i, db |-> dbv,
                        days |-> days_inactive(last_date_str, tdy)]
                  ELSE scan_skips_repair(rows, i + 1, dbv, tdy)

(* The loop from row i on, up to its next await: corrupt dates are reset   *)
(* to today and active users are passed over; it stops at the first        *)
(* inactive user (whose re-engagement send is awaited) or at the end.      *)
RECURSIVE scan(_, _, _, _)
scan(rows, i, dbv, tdy) ==
    IF i > Len(rows) THEN [i |-> i, db |-> dbv, days |-> 0]
    ELSE LET last_date_str == rows[i].last_interaction_date
         IN  IF is_corrupt(last_date_str)
             THEN scan(rows, i + 1,
                       update_interaction(dbv, rows[i].user_id, tdy), tdy)
             ELSE IF is_inactive(days_inactive(last_date_str, tdy))
                  THEN [i |-> i, db |-> dbv,
                        days |-> days_inactive(last_date_str, tdy)]
                  ELSE scan(rows, i + 1, dbv, tdy)

(* The sweep after scan: awaiting a send, or returned ("done": what the    *)
(* last sweep saw and sent stays on view until the next one starts).       *)
resume(s, r) ==
    IF r.i > Len(s.rows)
    THEN [s EXCEPT !.pc = "done", !.i = r.i, !.days = 0]
    ELSE [s EXCEPT !.pc = "reengage", !.i = r.i, !.days = r.days]

(* The admin alert sent whether or not an admin is configured.             *)
after_reengage_always_admin(ok, admin) == "admin"

(* The admin alert placed inside the try of the re-engagement send: a     *)
(* failed send skips it.                                                   *)
after_reengage_skips_admin(ok, admin) ==
    IF ok /\ admin # None THEN "admin" ELSE "next"

(* A re-engagement send whose exception is not caught ends the sweep.      *)
after_reengage_aborts(ok, admin) ==
    IF ~ok THEN "abort" ELSE IF admin # None THEN "admin" ELSE "next"

(* Where the loop goes once the re-engagement send returned or raised.     *)
after_reengage(ok, admin) == IF admin # None THEN "admin" ELSE "next"

(* Where the loop goes once the admin alert returned or raised.            *)
after_admin(ok) == "next"

(* A message handed to bot.send_message for row s.i.                      *)
LogEntry(kind, s) ==
    [kind |-> kind, user_id |-> s.rows[s.i].user_id, days |-> s.days]

(* The send for row s.i is over: it is on record, with how it ended.       *)
Sent(s, kind, ok) ==
    [s EXCEPT !.log = Append(@, LogEntry(kind, s)), !.ok = ok]

SweepStart ==
    /\ started /\ sweep.pc \in {"idle", "done"}
    /\ LET rows == get_active_users(db)
           s == [pc |-> "scan", rows |-> rows, i |-> 1, today |-> today,
                 days |-> 0, log |-> <<>>, ok |-> TRUE]
           r == scan(rows, 1, db, today)
       IN  /\ sweep' = resume(s, r)
           /\ db' = r.db
    /\ UNCHANGED <<user_jobs, job_queue, started, handler, running, today,
                   admin_id>>

(* The rest of the loop after the sends for row s.i are over.              *)
Continue(s, dest) ==
    IF dest = "admin"
    THEN /\ sweep' = [s EXCEPT !.pc = "admin"]
         /\ db' = db
    ELSE IF dest = "next"
    THEN LET r == scan(s.rows, s.i + 1, db, s.today)
         IN  /\ sweep' = resume(s, r)
             /\ db' = r.db
    ELSE /\ sweep' = [s EXCEPT !.pc = "aborted"]
         /\ db' = db

ReengageDone(ok) ==
    /\ sweep.pc = "reengage"
    /\ Continue(Sent(sweep, "reengage", ok), after_reengage(ok, admin_id))
    /\ UNCHANGED <<user_jobs, job_queue, started, handler, running, today,
                   admin_id>>

AdminDone(ok) ==
    /\ sweep.pc = "admin"
    /\ Continue(Sent(sweep, "admin", ok), after_admin(ok))
    /\ UNCHANGED <<user_jobs, job_queue, started, handler, running, today,
                   admin_id>>

(* ---- the calendar ----------------------------------------------------- *)
AdvanceDay ==
    /\ today < MaxDay
    /\ today' = today + 1
    /\ UNCHANGED <<db, user_jobs, job_queue, started, handler, running, sweep,
                   admin_id>>

Next ==
    \/ Run
    \/ \E u \in Users : Start(u)
    \/ \E u \in Users : Stop(u)
    \/ ReplyDone
    \/ \E u \in Users : HandleMessage(u)
    \/ \E u \in Users : ScheduleUserReminders(u)
    \/ \E job \in job_queue : FireReminder(job)
    \/ \E job \in running : ReminderSent(job)
    \/ \E job \in running : ReminderFailed(job)
    \/ SweepStart
    \/ \E ok \in BOOLEAN : ReengageDone(ok)
    \/ \E ok \in BOOLEAN : AdminDone(ok)
    \/ AdvanceDay

(* The whole bot; the step observation is not kept.                        *)
Spec == Init /\ [][Next /\ UNCHANGED <<last, user_times, sent, stale>>]_vars

(* The reminder side alone, every step observed in last.  The sweep reads  *)
(* and writes nothing of the job table, the job queue or the subscribed    *)
(* flag, and no reminder operation reads last_interaction_date or the      *)
(* calendar: the stored dates start out absent here and stay so.           *)
InitJobs ==
    /\ Init
    /\ \A u \in DOMAIN db : db[u].last_interaction_date = NULL

NextJobs ==
    \/ Run /\ last' = Step("Run", 0)
    \/ \E u \in Users : Start(u) /\ last' = Step("Start", u)
    \/ \E u \in Users : Stop(u) /\ last' = Step("Stop", u)
    \/ ReplyDone /\ last' = Step("ReplyDone", 0)
    \/ \E u \in Users :
          ScheduleUserReminders(u) /\ last' = Step("ScheduleUserReminders", u)
    \/ \E job \in job_queue :
          FireReminder(job) /\ last' = Step("FireReminder", job.user_id)
    \/ \E job \in running :
          ReminderSent(job) /\ last' = Step("ReminderSent", job.user_id)
    \/ \E job \in running :
          ReminderFailed(job) /\ last' = Step("ReminderFailed", job.user_id)

SpecJobs == InitJobs /\ [][NextJobs /\ UNCHANGED <<user_times, sent, stale>>]_vars

(* The reminder side with cancel_user_jobs also called on its own.         *)
NextCancel ==
    \/ NextJobs
    \/ \E u \in Users : CancelUserJobs(u) /\ last' = Step("CancelUserJobs", u)

SpecCancel ==
    InitJobs /\ [][NextCancel /\ UNCHANGED <<user_times, sent, stale>>]_vars

(* The sweep side alone.  The sweep reads the users table only, and /stop  *)
(* changes that table exactly as a failed reminder does (remove_user).     *)
NextSweep ==
    \/ Run
    \/ \E u \in Users : Start(u)
    \/ \E u \in Users : Stop(u)
    \/ ReplyDone
    \/ \E u \in Users : HandleMessage(u)
    \/ SweepStart
    \/ \E ok \in BOOLEAN : ReengageDone(ok)
    \/ \E ok \in BOOLEAN : AdminDone(ok)
    \/ AdvanceDay

SpecSweep ==
    Init /\ [][NextSweep /\ UNCHANGED <<last, user_times, sent, stale>>]_vars

(* The users table under the handlers alone, every step observed in last.  *)
(* The table outlives the process, and add_user takes the two hours as     *)
(* parameters: a stored row may hold hours other than the defaults that    *)
(* /start passes.                                                          *)
StoredRows ==
    [reminder_hour_1 : {DefaultHour1, DefaultHour2},
     reminder_hour_2 : {DefaultHour2},
     last_interaction_date : InitDates, subscribed : {0, 1}]

InitStore ==
    /\ last = Step("Init", 0)
    /\ db \in UNION {[S -> StoredRows] : S \in SUBSET Users}
    /\ user_jobs = <<>>
    /\ job_queue = {}
    /\ started = FALSE
    /\ handler = "idle"
    /\ running = {}
    /\ sweep = IdleSweep
    /\ today = StartDay
    /\ admin_id = None
    /\ user_times = <<>>
    /\ sent = {}
    /\ stale = {}

NextStore ==
    \/ Run /\ last' = Step("Run", 0)
    \/ \E u \in Users : Start(u) /\ last' = Step("Start", u)
    \/ \E u \in Users : Stop(u) /\ last' = Step("Stop", u)
    \/ ReplyDone /\ last' = Step("ReplyDone", 0)
    \/ \E u \in Users : HandleMessage(u) /\ last' = Step("HandleMessage", u)
    \/ AdvanceDay /\ last' = Step("AdvanceDay", 0)

SpecStore ==
    InitStore /\ [][NextStore /\ UNCHANGED <<user_times, sent, stale>>]_vars

(* The reminder side together with the operations of the module-level     *)
(* store.                                                                  *)
NextTimes ==
    \/ NextJobs /\ UNCHANGED user_times
    \/ \E u \in Users : AddUser(u) /\ last' = Step("AddUser", u)
    \/ \E u \in Users, time_type \in TimeTypes, time_str \in TimeStrs :
          SetUserTime(u, time_type, time_str) /\ last' = Step("SetUserTime", u)

SpecTimes == InitJobs /\ [][NextTimes /\ UNCHANGED <<sent, stale>>]_vars

(* Scheduling and sending started from stored rows whose two hours are    *)
(* the same (/start would put the default hours back).  sent observes the  *)
(* run: the live triggers of the users with equal hours whose send has     *)
(* gone out.                                                               *)
TieRows ==
    [reminder_hour_1 : {DefaultHour2}, reminder_hour_2 : {DefaultHour2},
     last_interaction_date : {NULL}, subscribed : {0, 1}]

InitTie ==
    /\ last = Step("Init", 0)
    /\ db \in UNION {[S -> TieRows] : S \in SUBSET Users}
    /\ user_jobs = <<>>
    /\ job_queue = {}
    /\ started = FALSE
    /\ handler = "idle"
    /\ running = {}
    /\ sweep = IdleSweep
    /\ today = StartDay
    /\ admin_id = None
    /\ user_times = <<>>
    /\ sent = {}
    /\ stale = {}

(* sent after a step: the live triggers among those given that belong to   *)
(* a user whose two stored hours are equal.                                *)
LiveTies(jobs) ==
    {job \in jobs \cap job_queue' :
        db'[job.user_id].reminder_hour_1 = db'[job.user_id].reminder_hour_2}

NextTie ==
    \/ Run /\ sent' = LiveTies(sent)
    \/ \E u \in Users : ScheduleUserReminders(u) /\ sent' = LiveTies(sent)
    \/ \E job \in job_queue : FireReminder(job) /\ sent' = LiveTies(sent)
    \/ \E job \in running :
          ReminderSent(job) /\ sent' = LiveTies(sent \cup {job})

SpecTie ==
    InitTie /\ [][NextTie /\ UNCHANGED <<last, user_times, stale>>]_vars

(* The reminder side with stale observing the run: the sends, in flight or *)
(* over with the last step, that were already in flight when a /start for  *)
(* their user ran.                                                         *)
NextRace ==
    /\ NextJobs
    /\ stale' = (IF last'.op = "Start"
                 THEN stale \cup JobsOf(running, last'.user)
                 ELSE stale) \cap running

SpecRace == InitJobs /\ [][NextRace /\ UNCHANGED <<user_times, sent>>]_vars

(* ======================================================================= *)
(* Properties                                                              *)
(* ======================================================================= *)
SubscribedIn(dbv, u) == HasRow(dbv, u) /\ dbv[u].subscribed = 1

Subscribed(u) == SubscribedIn(db, u)

(* The handles the job table stores for the user.                          *)
HandlesIn(uj, u) == IF u \in DOMAIN uj THEN Range(uj[u]) ELSE {}

Handles(u) == HandlesIn(user_jobs, u)

(* The user's recurring triggers that are live in the job queue.           *)
Triggers(u) == JobsOf(job_queue, u)

(* The time of day of a trigger: time(hour=..., minute=0).                 *)
TriggerTime(job) == <<job.hour, 0>>

(* The user has the pair of handles of a subscriber, or nothing at all.    *)
RebuiltIn(dbv, uj, q, u) ==
    IF SubscribedIn(dbv, u)
    THEN /\ u \in DOMAIN uj
         /\ Len(uj[u]) = 2
         /\ Cardinality(Range(uj[u])) = 2
         /\ JobsOf(q, u) = Range(uj[u])
    ELSE /\ u \notin DOMAIN uj
         /\ JobsOf(q, u) = {}

ActiveIds(dbv) ==
    {get_active_users(dbv)[k].user_id : k \in 1..Len(get_active_users(dbv))}

(* C1: once the startup rebuild has run, a user has an entry in user_jobs  *)
(* if and only if the stored record has subscribed = 1, and no handle and  *)
(* no trigger refers to a user who is not subscribed.                      *)
C1_JobsIffSubscribed ==
    started =>
        /\ \A u \in Users : (u \in DOMAIN user_jobs) <=> Subscribed(u)
        /\ \A u \in Users : \A j \in Handles(u) : Subscribed(j.user_id)
        /\ \A j \in job_queue : Subscribed(j.user_id)

C1_Witness ==
    \E u, v \in Users :
        /\ last = Step("Start", u)
        /\ Subscribed(u) /\ u \in DOMAIN user_jobs
        /\ HasRow(db, v) /\ ~Subscribed(v) /\ v \notin DOMAIN user_jobs

(* C2: for every user the triggers live in the job queue are exactly the   *)
(* handles the job table stores for that user, and there are none or two   *)
(* of them: no duplicate and no orphan is left by any cycle.               *)
C2_NoDuplicateNoOrphan ==
    \A u \in Users :
        /\ Triggers(u) = Handles(u)
        /\ Cardinality(Triggers(u)) \in {0, 2}
        /\ u \in DOMAIN user_jobs => Len(user_jobs[u]) = 2

C2_Witness ==
    \E u \in Users : \E old \in running :
        /\ old.user_id = u /\ old \notin job_queue /\ old \notin Handles(u)
        /\ Cardinality(Triggers(u)) = 2
        /\ Triggers(u) = Handles(u)

(* C3: right after any call of schedule_user_reminders for a subscribed    *)
(* user, the first or a repeated one, the user has exactly two handles and *)
(* exactly two live triggers, the same two.                                *)
C3_ScheduleIdempotent ==
    \A u \in Users :
        (last = Step("ScheduleUserReminders", u) /\ Subscribed(u)) =>
            /\ Len(user_jobs[u]) = 2
            /\ Cardinality(Handles(u)) = 2
            /\ Triggers(u) = Handles(u)

C3_Witness ==
    \E u \in Users :
        /\ last = Step("ScheduleUserReminders", u)
        /\ Subscribed(u)
        /\ Len(user_jobs[u]) = 2
        /\ user_jobs[u][1].gen = 1
        /\ Cardinality(Triggers(u)) = 2

(* C4: the step that handles a failed reminder send leaves the user's      *)
(* record with subscribed = 0, no entry in the job table and no live       *)
(* trigger, and starts no new send: the failed one is just over.           *)
C4_SendFailureUnsubscribes ==
    [][\A u \in Users :
          last' = Step("ReminderFailed", u) =>
              /\ HasRow(db', u) /\ db'[u].subscribed = 0
              /\ u \notin DOMAIN user_jobs'
              /\ JobsOf(job_queue', u) = {}
              /\ running' \subseteq running
              /\ Cardinality(running') = Cardinality(running) - 1]_vars

C4_Witness ==
    \E u \in Users :
        /\ last = Step("ReminderFailed", u)
        /\ HasRow(db, u) /\ db[u].subscribed = 0
        /\ u \notin DOMAIN user_jobs /\ Triggers(u) = {}

C6_RebuildBeforeEvents ==
    [][/\ last'.op = "Run" =>
            \A u \in Users : RebuiltIn(db', user_jobs', job_queue', u)
       /\ last'.op \in {"Start", "Stop", "ScheduleUserReminders"} =>
            /\ started
            /\ \A u \in Users : RebuiltIn(db, user_jobs, job_queue, u)]_vars

C6_Witness ==
    \E u, v \in Users :
        /\ last = Step("Run", 0)
        /\ Subscribed(u) /\ Len(user_jobs[u]) = 2
        /\ Cardinality(Triggers(u)) = 2
        /\ HasRow(db, v) /\ ~Subscribed(v) /\ v \notin DOMAIN user_jobs

(* C7: a call of cancel_user_jobs raises nothing and leaves the user       *)
(* without an entry, so that a second call finds none; and a call that     *)
(* finds no entry changes neither the job table nor the job queue.         *)
C7_CancelIdempotent ==
    [][\A u \in Users :
          last' = Step("CancelUserJobs", u) =>
              /\ ~cancel_user_jobs(Table, u).raised
              /\ u \notin DOMAIN user_jobs'
              /\ JobsOf(job_queue', u) = {}
              /\ u \notin DOMAIN user_jobs =>
                    (user_jobs' = user_jobs /\ job_queue' = job_queue)]_vars

C7_Witness ==
    \E u \in Users :
        /\ last = Step("CancelUserJobs", u)
        /\ Subscribed(u)
        /\ u \notin DOMAIN user_jobs /\ Triggers(u) = {}

(* ---- the sweep's record ----------------------------------------------- *)
(* Rows the sweep has examined: those before row i and, while a send for   *)
(* it is awaited, row i.                                                   *)
Examined(s) == {k \in 1..Len(s.rows) : k <= s.i}

(* A re-engagement message for the user was sent or is being sent.         *)
Messaged(s, u) ==
    \/ \E e \in Range(s.log) : e.kind = "reengage" /\ e.user_id = u
    \/ s.pc = "reengage" /\ s.rows[s.i].user_id = u

ValidDate(text) == text # NULL /\ fromisoformat(text).ok

(* C8: a user of the snapshot whose stored date is d days before the       *)
(* sweep's today is sent the re-engagement message iff d >= 3.             *)
C8_InclusiveBoundary ==
    \A k \in Examined(sweep) :
        ValidDate(sweep.rows[k].last_interaction_date) =>
            (Messaged(sweep, sweep.rows[k].user_id) <=>
                sweep.today
                  - fromisoformat(sweep.rows[k].last_interaction_date).value
                  >= 3)

C8_Witness ==
    /\ sweep.pc = "done"
    /\ \E k \in Examined(sweep) :
          /\ ValidDate(sweep.rows[k].last_interaction_date)
          /\ sweep.today
               - fromisoformat(sweep.rows[k].last_interaction_date).value = 3
          /\ \E e \in Range(sweep.log) :
                /\ e.kind = "reengage" /\ e.days = 3
                /\ e.user_id = sweep.rows[k].user_id

(* C9: a new subscriber's record has no interaction date; a sweep's        *)
(* snapshot holds every subscribed user; and every user of a snapshot      *)
(* whose date is absent is sent the re-engagement message by that sweep.   *)
C9_AbsentDateInactive ==
    [][/\ \A u \in Users :
            (~HasRow(db, u) /\ HasRow(db', u)) =>
                db'[u].last_interaction_date = NULL
       /\ (sweep' # sweep /\ sweep.pc \in {"idle", "done"}) =>
            \A u \in Users :
                Subscribed(u) =>
                    \E k \in 1..Len(sweep'.rows) :
                        /\ sweep'.rows[k].user_id = u
                        /\ (db[u].last_interaction_date = NULL =>
                              sweep'.rows[k].last_interaction_date = NULL)
       /\ \A k \in Examined(sweep') :
            sweep'.rows[k].last_interaction_date = NULL =>
                Messaged(sweep', sweep'.rows[k].user_id)]_vars

C9_Witness ==
    /\ sweep.pc = "done"
    /\ \E k \in Examined(sweep) :
          /\ sweep.rows[k].last_interaction_date = NULL
          /\ \E e \in Range(sweep.log) :
                /\ e.kind = "reengage" /\ e.days = 4
                /\ e.user_id = sweep.rows[k].user_id

(* C10: the sweep never ends before the end of its snapshot: whatever      *)
(* sends failed and whatever dates were corrupt, every inactive user       *)
(* before the current row has been sent the message, and a sweep that has  *)
(* returned has examined every row.                                        *)
C10_SweepNeverAborts ==
    /\ sweep.pc \in {"idle", "reengage", "admin", "done"}
    /\ sweep.pc = "done" => sweep.i = Len(sweep.rows) + 1
    /\ sweep.pc \in {"reengage", "admin"} => sweep.i \in 1..Len(sweep.rows)
    /\ \A k \in Examined(sweep) :
          LET text == sweep.rows[k].last_interaction_date
          IN  (text = NULL \/ (ValidDate(text) /\
                  sweep.today - fromisoformat(text).value >= 3)) =>
                Messaged(sweep, sweep.rows[k].user_id)

C10_Witness ==
    /\ sweep.pc = "reengage"
    /\ sweep.ok = FALSE
    /\ Len(sweep.log) >= 1
    /\ \A e \in Range(sweep.log) : e.user_id # sweep.rows[sweep.i].user_id

(* C11: /start for an id that already has a row reactivates that row: the  *)
(* table keeps exactly the ids it had (one row per id), the row ends with  *)
(* subscribed = 1 and both hours at the defaults /start passes, its        *)
(* last_interaction_date is the one it had, and no other row changes.      *)
C11_UpsertReactivates ==
    [][\A u \in Users :
          (last' = Step("Start", u) /\ HasRow(db, u)) =>
              /\ DOMAIN db' = DOMAIN db
              /\ db'[u] = [reminder_hour_1 |-> DefaultHour1,
                           reminder_hour_2 |-> DefaultHour2,
                           last_interaction_date |->
                               db[u].last_interaction_date,
                           subscribed |-> 1]
              /\ \A v \in DOMAIN db \ {u} : db'[v] = db[v]]_vars

(* /start has just run for a row that was stored with a date (a new row    *)
(* would hold no date): subscribed, default hours, the date still there,   *)
(* and the user's handles installed.                                       *)
C11_Witness ==
    \E u \in Users :
        /\ last = Step("Start", u)
        /\ HasRow(db, u)
        /\ db[u].subscribed = 1
        /\ db[u].reminder_hour_1 = DefaultHour1
        /\ db[u].last_interaction_date = isoformat(StartDay - 2)
        /\ u \in DOMAIN user_jobs

(* C12: for a user subscribed in both stores, set_user_time on the morning *)
(* slot leaves get_user_times with that morning time and the evening time  *)
(* it had, and a following schedule_user_reminders leaves exactly two      *)
(* handles whose first (morning) trigger fires at the stored morning time. *)
C12_SlotPickedUp ==
    [][\A u \in Users :
          (Subscribed(u) /\ u \in DOMAIN user_times) =>
              /\ \A t \in TimeStrs :
                     (last' = Step("SetUserTime", u)
                         /\ SetUserTime(u, "morning", t)) =>
                         get_user_times(user_times', u) =
                             <<t, get_user_times(user_times, u)[2]>>
              /\ last' = Step("ScheduleUserReminders", u) =>
                     /\ u \in DOMAIN user_jobs'
                     /\ Len(user_jobs'[u]) = 2
                     /\ Range(user_jobs'[u]) \subseteq job_queue'
                     /\ TriggerTime(user_jobs'[u][1]) =
                            get_user_times(user_times', u)[1]]_vars

(* C13: in every step of /start, /stop, a reschedule, a send and the       *)
(* failure cleanup of a send, interleaved in any order: the handles a      *)
(* cancel_user_jobs for the user would go through are all live, before and *)
(* after the step, so no schedule_removal ever meets a handle cancelled    *)
(* before; a handle the step takes out of the table or out of the queue is *)
(* out of both afterwards; and a cancelled handle whose send is still in   *)
(* flight comes back to neither.                                           *)
C13_AtomicHandleMutations ==
    [][\A u \in Users :
          LET jobs == IF u \in DOMAIN user_jobs THEN user_jobs[u] ELSE <<>>
              jobs2 == IF u \in DOMAIN user_jobs' THEN user_jobs'[u] ELSE <<>>
          IN  /\ ~AnyRaised(job_queue, jobs, 1)
              /\ ~AnyRaised(job_queue', jobs2, 1)
              /\ \A job \in Handles(u) \cup Triggers(u) :
                     (job \notin Range(jobs2) \/ job \notin job_queue') =>
                         (job \notin Range(jobs2) /\ job \notin job_queue')
              /\ \A job \in JobsOf(running, u) :
                     job \notin job_queue =>
                         (job \notin job_queue' /\ job \notin Range(jobs2))]_vars

(* /start has replaced the user's handles while a send of one of the old   *)
(* ones is in flight, its failure cleanup still to come.                   *)
C13_Witness ==
    \E u \in Users : \E old \in running :
        /\ last = Step("Start", u)
        /\ old.user_id = u /\ old \notin job_queue /\ old \notin Handles(u)
        /\ Cardinality(Handles(u)) = 2 /\ Handles(u) \subseteq job_queue

(* C14: no step of the sweep, the return or the failure of either of its   *)
(* sends included, changes which users have a row, any row's subscribed    *)
(* flag or reminder hours, the job table or the job queue; and when the    *)
(* re-engagement send is over, failed or not, and an admin is configured,  *)
(* the sweep goes on to the admin alert for the same user.                 *)
C14_SweepSendsBestEffort ==
    [][sweep' # sweep =>
          /\ DOMAIN db' = DOMAIN db
          /\ \A u \in DOMAIN db :
                 /\ db'[u].subscribed = db[u].subscribed
                 /\ db'[u].reminder_hour_1 = db[u].reminder_hour_1
                 /\ db'[u].reminder_hour_2 = db[u].reminder_hour_2
          /\ user_jobs' = user_jobs
          /\ job_queue' = job_queue
          /\ (sweep.pc = "reengage" /\ admin_id # None) =>
                 /\ sweep'.pc = "admin"
                 /\ sweep'.i = sweep.i
                 /\ sweep'.log = Append(sweep.log, LogEntry("reengage", sweep))
      ]_vars

(* The re-engagement send to a subscribed user with installed handles has  *)
(* failed and the admin alert for that user is being sent.                 *)
C14_Witness ==
    /\ sweep.pc = "admin"
    /\ ~sweep.ok
    /\ Len(sweep.log) >= 1
    /\ sweep.log[Len(sweep.log)] = LogEntry("reengage", sweep)
    /\ Subscribed(sweep.rows[sweep.i].user_id)
    /\ sweep.rows[sweep.i].user_id \in DOMAIN user_jobs

(* The rows the loop goes through in a step of the sweep: from the first   *)
(* row of a new snapshot, or from the row after the one whose sends are    *)
(* over, up to the row it stops at.                                        *)
ScannedIn(s, s2) ==
    LET lo == IF s.pc \in {"idle", "done"} THEN 1 ELSE s.i + 1
    IN  {k \in 1..Len(s2.rows) : lo <= k /\ k <= s2.i}

(* The users whose snapshot row, gone through in the step, does not parse. *)
CorruptIn(s, s2) ==
    {s2.rows[k].user_id :
        k \in {x \in ScannedIn(s, s2) :
                  is_corrupt(s2.rows[x].last_interaction_date)}}

(* C15: a step of the sweep that goes through a row whose date does not    *)
(* parse sets that user's last_interaction_date to the date the sweep took *)
(* as today and changes no other field of that row; it changes no other    *)
(* row; and the sweep sends no re-engagement message and no admin alert    *)
(* for a user whose row it found corrupt.                                  *)
C15_CorruptDateRepaired ==
    [][sweep' # sweep =>
          /\ DOMAIN db' = DOMAIN db
          /\ \A u \in DOMAIN db :
                 IF u \in CorruptIn(sweep, sweep')
                 THEN db'[u] = [db[u] EXCEPT !.last_interaction_date =
                                                isoformat(sweep'.today)]
                 ELSE db'[u] = db[u]
          /\ \A k \in Examined(sweep') :
                 is_corrupt(sweep'.rows[k].last_interaction_date) =>
                     /\ \A e \in Range(sweep'.log) :
                            e.user_id # sweep'.rows[k].user_id
                     /\ sweep'.pc \in {"reengage", "admin"} => k # sweep'.i
      ]_vars

(* A finished sweep found a corrupt date and messaged another user: the    *)
(* corrupt one holds the sweep's date and is not in the log.               *)
C15_Witness ==
    /\ sweep.pc = "done"
    /\ Len(sweep.log) >= 1
    /\ \E k \in 1..Len(sweep.rows) :
           /\ is_corrupt(sweep.rows[k].last_interaction_date)
           /\ db[sweep.rows[k].user_id].last_interaction_date =
                  isoformat(sweep.today)
           /\ \A e \in Range(sweep.log) : e.user_id # sweep.rows[k].user_id

(* C16: with the calendar only moving forward, a stored date that parses   *)
(* is never replaced by an earlier one or by one that does not parse, and  *)
(* a step of the sweep changes a user's last_interaction_date only when    *)
(* the value stored at that moment does not parse.                         *)
C16_DateNeverBackwards ==
    [][\A u \in DOMAIN db :
          /\ ValidDate(db[u].last_interaction_date) =>
                 /\ ValidDate(db'[u].last_interaction_date)
                 /\ fromisoformat(db'[u].last_interaction_date).value >=
                        fromisoformat(db[u].last_interaction_date).value
          /\ (sweep' # sweep /\ db'[u].last_interaction_date #
                                   db[u].last_interaction_date) =>
                 is_corrupt(db[u].last_interaction_date)]_vars

(* C17: a message from a user whose row has subscribed = 1 sets that row's *)
(* last_interaction_date to today and changes nothing else; a message from *)
(* a user with no row or with subscribed = 0 changes nothing: no row is    *)
(* created, no field changes, no job is scheduled.                         *)
C17_MessageTouchesDateOnly ==
    [][\A u \in Users :
          last' = Step("HandleMessage", u) =>
              /\ user_jobs' = user_jobs
              /\ job_queue' = job_queue
              /\ DOMAIN db' = DOMAIN db
              /\ \A v \in DOMAIN db \ {u} : db'[v] = db[v]
              /\ IF Subscribed(u)
                 THEN db'[u] = [db[u] EXCEPT !.last_interaction_date =
                                                isoformat(today)]
                 ELSE HasRow(db, u) => db'[u] = db[u]]_vars

(* A message from a subscribed user has just been handled on a later day   *)
(* than the start of the run, next to an unsubscribed row that keeps the   *)
(* date it was stored with.                                                *)
C17_Witness ==
    \E u, v \in Users :
        /\ last = Step("HandleMessage", u)
        /\ Subscribed(u)
        /\ today > StartDay
        /\ db[u].last_interaction_date = isoformat(today)
        /\ HasRow(db, v) /\ ~Subscribed(v)
        /\ db[v].last_interaction_date = isoformat(StartDay - 2)

(* C18: a subscribed user whose two stored hours are equal and who has an  *)
(* entry in the job table has two handles there, two different Job         *)
(* objects, both live triggers, both at that hour; and each of the two     *)
(* fires on its own: its send can start whenever it is not already in      *)
(* flight and a send can be carried.                                       *)
C18_EqualTimesTwoTriggers ==
    \A u \in Users :
        (/\ Subscribed(u)
         /\ db[u].reminder_hour_1 = db[u].reminder_hour_2
         /\ u \in DOMAIN user_jobs) =>
            /\ Len(user_jobs[u]) = 2
            /\ user_jobs[u][1] # user_jobs[u][2]
            /\ Triggers(u) = Handles(u)
            /\ Cardinality(Triggers(u)) = 2
            /\ \A job \in Triggers(u) :
                   /\ job.hour = db[u].reminder_hour_1
                   /\ (job \notin running
                          /\ Cardinality(running) < MaxInFlight) =>
                          ENABLED FireReminder(job)

(* Both triggers of a user with equal hours have fired and both sends have *)
(* gone out.                                                               *)
C18_Witness ==
    \E u \in Users :
        /\ Subscribed(u)
        /\ db[u].reminder_hour_1 = db[u].reminder_hour_2
        /\ u \in DOMAIN user_jobs
        /\ Cardinality(Handles(u)) = 2
        /\ Handles(u) \subseteq sent

(* The send that ended with the step.                                      *)
Ended == running \ running'

(* C19 as stated: with no handler in progress, a user stops being          *)
(* subscribed only by a /stop of their own or by the failure of a send     *)
(* that was not in flight at their latest /start; and the failure of a     *)
(* send that was in flight at that /start leaves the user subscribed with  *)
(* two live triggers.                                                      *)
C19_OnlyOwnStopOrLaterFailure ==
    [][\A u \in Users :
          (handler = "idle" /\ Subscribed(u)) =>
              /\ ~SubscribedIn(db', u) =>
                     \/ last' = Step("Stop", u)
                     \/ last' = Step("ReminderFailed", u)
                           /\ Ended \cap stale = {}
              /\ (last' = Step("ReminderFailed", u) /\ Ended \subseteq stale) =>
                     /\ SubscribedIn(db', u)
                     /\ Cardinality(JobsOf(job_queue', u)) = 2]_vars

(* C19, amended: a user stops being subscribed only by a /stop of their    *)
(* own or by the failure of a reminder send to them, whenever that send    *)
(* started; the failure of a send that was already in flight at the user's *)
(* latest /start also leaves the user with subscribed = 0, no entry in the *)
(* job table and no live trigger: the handles that /start installed are    *)
(* cancelled.                                                              *)
C19_FailureOfAnySendUnsubscribes ==
    [][\A u \in Users :
          /\ (Subscribed(u) /\ ~SubscribedIn(db', u)) =>
                 \/ last' = Step("Stop", u)
                 \/ last' = Step("ReminderFailed", u)
          /\ (last' = Step("ReminderFailed", u) /\ Ended \subseteq stale) =>
                 /\ ~SubscribedIn(db', u)
                 /\ u \notin DOMAIN user_jobs'
                 /\ JobsOf(job_queue', u) = {}]_vars

(* A send that was in flight when the user's /start ran has just failed,   *)
(* with that /start over: the user is unsubscribed and has no trigger.     *)
C19_Witness ==
    \E u \in Users : \E job \in stale :
        /\ last = Step("ReminderFailed", u)
        /\ job.user_id = u /\ job \notin running
        /\ handler = "idle"
        /\ HasRow(db, u) /\ ~Subscribed(u)
        /\ u \notin DOMAIN user_jobs /\ Triggers(u) = {}

(* The entries of the sweep's log of one kind for one user.                *)
EntriesFor(s, kind, u) ==
    {k \in 1..Len(s.log) : s.log[k].kind = kind /\ s.log[k].user_id = u}

(* C20: in one run of the sweep each user has at most one re-engagement    *)
(* message and at most one admin alert; every message and alert is for a   *)
(* user of the snapshot whose row the loop has reached and whose snapshot  *)
(* date is absent or at least InactiveDays days before the sweep's today;  *)
(* and with no admin configured the sweep sends no alert and never waits   *)
(* for one.                                                                *)
C20_AtMostOnePerSweep ==
    /\ \A u \in Users :
           /\ Cardinality(EntriesFor(sweep, "reengage", u)) <= 1
           /\ Cardinality(EntriesFor(sweep, "admin", u)) <= 1
    /\ \A e \in Range(sweep.log) :
           \E k \in Examined(sweep) :
               /\ sweep.rows[k].user_id = e.user_id
               /\ ~is_corrupt(sweep.rows[k].last_interaction_date)
               /\ is_inactive(days_inactive(
                      sweep.rows[k].last_interaction_date, sweep.today))
    /\ \A j, k \in 1..Len(sweep.rows) :
           sweep.rows[j].user_id = sweep.rows[k].user_id => j = k
    /\ admin_id = None =>
           /\ sweep.pc # "admin"
           /\ \A e \in Range(sweep.log) : e.kind # "admin"

(* A sweep with no admin configured has finished after a re-engagement     *)
(* message to each of two users: two entries, no alert.                    *)
C20_Witness ==
    /\ sweep.pc = "done"
    /\ admin_id = None
    /\ Len(sweep.log) = 2
    /\ sweep.log[1].user_id # sweep.log[2].user_id

====
